---------------------------- MODULE Spec2Model ----------------------------
(***************************************************************************)
(* QVSPSocket (src/qvspsocket.cpp): the VSP/BRSP handshake and the         *)
(* RTS/CTS flow-controlled byte stream over a Bluetooth LE GATT service.   *)
(*                                                                         *)
(* The socket object is the state machine.  Its members are the variables, *)
(* every facade call and every transport callback (lambda) is one action.  *)
(* The Qt transport (QLowEnergyController / QLowEnergyService) is the      *)
(* environment: it holds the queue of operations the socket issued and     *)
(* completes them in order, and it delivers unsolicited notifications.     *)
(***************************************************************************)
EXTENDS Integers, Sequences, FiniteSets, TLC

\* ------------------------------------------------------------------ bounds
\* the constructor argument maxBufferSize (21 .. INT_MAX); small on purpose
maxBufferSize == 23
\* operations queued in the transport and not yet completed
MaxPending == 2
\* writeData() calls accepted plus TX_FIFO notifications delivered between
\* two close() calls
MaxData == 2

\* --------------------------------------------------------------- constants
PACKET_SIZE == 20

Laird == "Laird"
BlueRadios == "BlueRadios"
Manufacturer == {Laird, BlueRadios}

\* QByteArray values are sequences of bytes
BRSP_MODE_DATA == <<1>>
DESC_NOTIFY_ON == <<1, 0>>
DESC_NOTIFY_OFF == <<0, 0>>
MODEM_SET_BIT_Swapped(mf) == IF mf = Laird THEN <<0>> ELSE <<1>>
MODEM_SET_BIT(mf) == IF mf = Laird THEN <<1>> ELSE <<0>>
MODEM_CLEAR_BIT(mf) == IF mf = Laird THEN <<0>> ELSE <<1>>

\* the characteristics and descriptors the socket resolves
RxFifo == "rxFifoChar"
TxFifo == "txFifoChar"
ModemIn == "modemInChar"
ModemOut == "modemOutChar"
BrspMode == "brspModeChar"
TxFifoNotify == "txFifoNotify"
ModemOutNotify == "modemOutNotify"
RequiredChars == {RxFifo, TxFifo, ModemIn, ModemOut}
Descriptors == {TxFifoNotify, ModemOutNotify}

\* ------------------------------------------------------------------ helpers
Min(a, b) == IF a < b THEN a ELSE b

\* QBuffer::read(n) on a byte array: its first n bytes (fewer if it is shorter)
Take(s, n) == SubSeq(s, 1, Min(n, Len(s)))

\* QByteArray::remove(0, n)
Remove(s, n) == SubSeq(s, Min(n, Len(s)) + 1, Len(s))

\* n bytes of payload, numbered from `from` (mod 256), so that a lost, doubled
\* or displaced byte is visible
Bytes(from, n) == [i \in 1..n |-> (from + i - 1) % 256]

\* the inputs: lengths of writeData() calls, of TX_FIFO notifications (one
\* Bluetooth LE packet at most) and of readData() calls
WriteLens == {1, maxBufferSize - 1 - PACKET_SIZE, PACKET_SIZE + 1}
RxLens == {maxBufferSize - 1 - PACKET_SIZE, maxBufferSize - PACKET_SIZE, PACKET_SIZE}
ReadLens == {PACKET_SIZE - 1, PACKET_SIZE}

\* an operation handed to QLowEnergyService
WriteChar(c, v) == [op |-> "writeCharacteristic", tgt |-> c, val |-> v]
WriteDesc(d, v) == [op |-> "writeDescriptor", tgt |-> d, val |-> v]
ReadChar(c) == [op |-> "readCharacteristic", tgt |-> c, val |-> <<>>]

\* QLowEnergyService::ServiceError values the socket stores in _error
NoError == "NoError"
OperationError == "OperationError"
CharacteristicWriteError == "CharacteristicWriteError"
DescriptorWriteError == "DescriptorWriteError"
CharacteristicReadError == "CharacteristicReadError"

VARIABLES
    state,        \* _state
    open,         \* QIODevice::isOpen()
    err,          \* _error
    m,            \* m, the manufacturer of the service found
    controller,   \* controller: "null", or the phase of the QLowEnergyController
    service,      \* service: "null", "discovering" (details) or "discovered"
    valid,        \* the handle members (rxFifoChar .. modemOutNotify) that hold a
                  \* resolved handle; the others are default-constructed
    handlers,     \* the four service lambdas (lines 280-350) are connected
    cts, rts,
    readBuffer, writeBuffer,
    pending,      \* operations issued to the service, oldest first
    crashed,      \* the process died in a call through a null service pointer
    accepted,     \* history: the bytes of all accepted writeData() calls
    sent,         \* history: the payloads written to RX_FIFO, concatenated
    nAccepted,    \* history: the number of accepted writeData() calls
    rxCount,      \* history: the number of TX_FIFO notifications so far
    seen,         \* history: handshake operations issued / confirmed while not open
    rtsWire,      \* history: the last value written to MODEM_IN
    received,     \* history: the TX_FIFO payloads appended to the read buffer
    delivered,    \* history: the bytes readData() returned, concatenated
    last          \* history: the signals the last step emitted, what it returned

vars == <<state, open, err, m, controller, service, valid, handlers, cts, rts,
          readBuffer, writeBuffer, pending, crashed,
          accepted, sent, nAccepted, rxCount, seen, rtsWire, received, delivered,
          last>>

\* groups of variables, for UNCHANGED
sockVars == <<state, open, err, m, cts, rts, readBuffer, writeBuffer>>
transVars == <<controller, service, valid, handlers, pending>>
histVars == <<accepted, sent, nAccepted, rxCount, seen, rtsWire, received, delivered>>
rxHist == <<received, delivered>>

\* the record of a step: the signals it emitted and requests it made to the
\* controller, in order, and the value it returned (0 for a callback)
Step(s, r) == [sig |-> s, ret |-> r]

Init ==
    /\ state = "Unconnected"
    /\ open = FALSE
    /\ err = NoError
    /\ m = Laird
    /\ controller = "null"
    /\ service = "null"
    /\ valid = {}
    /\ handlers = FALSE
    /\ cts = FALSE
    /\ rts = FALSE
    /\ readBuffer = <<>>
    /\ writeBuffer = <<>>
    /\ pending = <<>>
    /\ crashed = FALSE
    /\ accepted = <<>>
    /\ sent = <<>>
    /\ nAccepted = 0
    /\ rxCount = 0
    /\ seen = {}
    /\ rtsWire = "none"
    /\ received = <<>>
    /\ delivered = <<>>
    /\ last = Step(<<>>, 0)

\* ------------------------------------------------------------ the transport
\* QLowEnergyService takes an operation only on a discovered service and a
\* handle that belongs to it; otherwise it reports OperationError through its
\* error signal, which the lambda of lines 215-242 turns into error().  A
\* member that still holds a handle of an earlier service is passed only
\* while no service is discovered: the lookups of lines 248-272 overwrite
\* every member the calls on a discovered service use
Queued(calls, svc, vld) ==
    SelectSeq(calls, LAMBDA o : svc = "discovered" /\ o.tgt \in vld)

Refused(calls, svc, vld) == Len(Queued(calls, svc, vld)) < Len(calls)

\* the wire contract: the byte that asserts RTS / CTS
SetEncoding(mf) == IF mf = Laird THEN <<1>> ELSE <<0>>

\* the handshake operation an operation of the queue is
IssueTag(o) ==
    IF o.op = "writeCharacteristic" /\ o.tgt = BrspMode THEN {"modeIssued"}
    ELSE IF o.op = "writeDescriptor" /\ o.tgt = TxFifoNotify THEN {"txDescIssued"}
    ELSE IF o.op = "writeDescriptor" /\ o.tgt = ModemOutNotify THEN {"moDescIssued"}
    ELSE IF o.op = "writeCharacteristic" /\ o.tgt = ModemIn /\ o.val = SetEncoding(m)
         THEN {"setIssued"}
    ELSE IF o.op = "readCharacteristic" /\ o.tgt = ModemOut THEN {"readIssued"}
    ELSE {}

\* the confirmation the completion of an operation is
ConfirmTag(o) ==
    IF o.op = "writeCharacteristic" /\ o.tgt = BrspMode THEN {"modeConfirmed"}
    ELSE IF o.op = "writeDescriptor" /\ o.tgt = TxFifoNotify /\ o.val = <<1, 0>>
         THEN {"txDescConfirmed"}
    ELSE IF o.op = "writeDescriptor" /\ o.tgt = ModemOutNotify /\ o.val = <<1, 0>>
         THEN {"moDescConfirmed"}
    ELSE IF o.op = "writeCharacteristic" /\ o.tgt = ModemIn /\ o.val = SetEncoding(m)
         THEN {"setConfirmed"}
    ELSE IF o.op = "readCharacteristic" /\ o.tgt = ModemOut THEN {"readCompleted"}
    ELSE {}

IssueTags(ops) == UNION {IssueTag(ops[i]) : i \in 1..Len(ops)}

\* the RTS value on the wire after `ops` were queued
WireAfter(w, ops) ==
    IF ops # <<>> /\ ops[Len(ops)].op = "writeCharacteristic" /\ ops[Len(ops)].tgt = ModemIn
    THEN IF ops[Len(ops)].val = SetEncoding(m) THEN "set" ELSE "clear"
    ELSE w

\* the RX_FIFO payloads among `ops`, concatenated
Payload(ops) ==
    IF ops # <<>> /\ ops[1].op = "writeCharacteristic" /\ ops[1].tgt = RxFifo
    THEN ops[1].val ELSE <<>>

\* a handler calls service->...(calls) on top of the queue `pend`
\* (a completion handler first notes the confirmation `conf` it was given)
Invoke(pend, calls, svc, vld, conf) ==
    /\ pending' = pend \o Queued(calls, svc, vld)
    /\ seen' = IF open THEN seen
               ELSE (seen \cup conf) \cup IssueTags(Queued(calls, svc, vld))
    /\ rtsWire' = WireAfter(rtsWire, Queued(calls, svc, vld))
    /\ sent' = sent \o Payload(Queued(calls, svc, vld))

\* a call through the null service pointer
NullCall(calls) == service = "null" /\ calls # <<>>

\* ------------------------------------------------------------ connectToDevice
connectToDevice ==
    /\ ~crashed
    /\ IF open
       THEN /\ last' = Step(<<>>, 0)
            /\ UNCHANGED <<sockVars, transVars, crashed, histVars>>
       ELSE /\ controller' = "connecting"
            /\ service' = "null"
            /\ handlers' = FALSE
            /\ pending' = <<>>
            /\ state' = "Connecting"
            /\ seen' = {}
            /\ rtsWire' = "none"
            /\ last' = Step(<<"connectToDevice", "stateChanged(Connecting)">>, 0)
            /\ UNCHANGED <<open, err, m, cts, rts, readBuffer, writeBuffer, valid,
                           crashed, accepted, sent, nAccepted, rxCount, rxHist>>

\* QLowEnergyController::connected
controllerConnected ==
    /\ ~crashed
    /\ controller = "connecting"
    /\ controller' = "discovering"
    /\ last' = Step(<<"discoverServices">>, 0)
    /\ UNCHANGED <<sockVars, service, valid, handlers, pending, crashed, histVars>>

\* QLowEnergyController::error
controllerError ==
    /\ ~crashed
    /\ controller # "null"
    /\ err' = OperationError
    /\ last' = Step(<<"error">>, 0)
    /\ UNCHANGED <<state, open, m, cts, rts, readBuffer, writeBuffer, transVars,
                   crashed, histVars>>

\* QLowEnergyController::discoveryFinished; `found` is the manufacturer of the
\* first VSP service among controller->services(), or "none"
discoveryFinished(found) ==
    /\ ~crashed
    /\ controller = "discovering"
    /\ controller' = "idle"
    /\ LET svc == IF found # "none" THEN "discovering" ELSE service
       IN  IF svc = "null"
           THEN /\ err' = OperationError
                /\ last' = Step(<<"error">>, 0)
                /\ UNCHANGED <<state, open, m, cts, rts, readBuffer, writeBuffer,
                               service, valid, handlers, pending>>
           ELSE /\ service' = svc
                /\ m' = IF found # "none" THEN found ELSE m
                /\ last' = Step(<<"discoverDetails">>, 0)
                /\ UNCHANGED <<state, open, err, cts, rts, readBuffer, writeBuffer,
                               valid, handlers, pending>>
    /\ UNCHANGED <<crashed, histVars>>

\* the operation that starts the handshake once the handles are resolved
HandshakeStart_Direct(mf) == WriteDesc(TxFifoNotify, DESC_NOTIFY_ON)
HandshakeStart(mf) ==
    IF mf = BlueRadios THEN WriteChar(BrspMode, BRSP_MODE_DATA)
    ELSE WriteDesc(TxFifoNotify, DESC_NOTIFY_ON)

\* the members that hold a resolved handle after the lookups of the
\* stateChanged lambda, given the members `vld` that held one before and the
\* set `bad` of handles the service does not have: a lookup assigns its
\* member, a member whose lookup is not reached keeps what it held
Resolved(vld, bad) ==
    IF RequiredChars \cap bad # {}
    THEN (RequiredChars \ bad) \cup (vld \ RequiredChars)
    ELSE IF m = BlueRadios /\ BrspMode \in bad
    THEN RequiredChars \cup (vld \cap Descriptors)
    ELSE (RequiredChars \cup (IF m = BlueRadios THEN {BrspMode} ELSE vld \cap {BrspMode}))
            \cup (Descriptors \ bad)

ResolveFails_IgnoreDescriptors(bad) ==
    \/ RequiredChars \cap bad # {}
    \/ m = BlueRadios /\ BrspMode \in bad
ResolveFails(bad) ==
    \/ RequiredChars \cap bad # {}
    \/ m = BlueRadios /\ BrspMode \in bad
    \/ Descriptors \cap bad # {}

BadSets == {{}, {RxFifo}, {ModemOut}, {BrspMode}, {ModemOutNotify}}

\* QLowEnergyService::stateChanged(ServiceDiscovered)
serviceDiscovered(bad) ==
    /\ ~crashed
    /\ service = "discovering"
    /\ service' = "discovered"
    /\ valid' = Resolved(valid, bad)
    /\ IF ResolveFails(bad)
       THEN /\ err' = OperationError
            /\ last' = Step(<<"error">>, 0)
            /\ UNCHANGED <<handlers, pending, seen, rtsWire, sent>>
       ELSE /\ handlers' = TRUE
            /\ Invoke(pending, <<HandshakeStart(m)>>, "discovered", Resolved(valid, bad), {})
            /\ last' = Step(<<>>, 0)
            /\ UNCHANGED err
    /\ UNCHANGED <<state, open, m, cts, rts, readBuffer, writeBuffer, controller,
                   crashed, accepted, nAccepted, rxCount, rxHist>>

\* ------------------------------------------------------------ writeInternal
\* the packet writeInternal() takes from the write buffer
WriteInternalChunk_IgnoreCts(c, wb) == Take(wb, PACKET_SIZE)
WriteInternalChunk(c, wb) == IF c THEN Take(wb, PACKET_SIZE) ELSE <<>>

\* its call to the service
WriteInternalCalls(c, wb) ==
    IF WriteInternalChunk(c, wb) # <<>>
    THEN <<WriteChar(RxFifo, WriteInternalChunk(c, wb))>>
    ELSE <<>>

\* the write buffer it leaves
WriteInternalRest_OffByOne(c, wb) ==
    IF WriteInternalChunk(c, wb) # <<>>
    THEN Remove(wb, Len(WriteInternalChunk(c, wb)) + 1)
    ELSE wb
WriteInternalRest(c, wb) == Remove(wb, Len(WriteInternalChunk(c, wb)))

WriteInternalSignals(c, wb) ==
    IF WriteInternalChunk(c, wb) # <<>> THEN <<"bytesWritten">> ELSE <<>>

\* the error() a refused call raises through the lambda of lines 215-242
RefusedSignals(calls) ==
    IF service # "null" /\ Refused(calls, service, valid) THEN <<"error">> ELSE <<>>

RefusedError(calls, e) ==
    IF service # "null" /\ Refused(calls, service, valid) THEN OperationError ELSE e

\* ------------------------------------------------- the service's completions
\* lines 280-285
DescriptorWrittenCalls(d, v) ==
    IF d = TxFifoNotify /\ v = DESC_NOTIFY_ON
    THEN <<WriteDesc(ModemOutNotify, DESC_NOTIFY_ON)>>
    ELSE IF d = ModemOutNotify /\ v = DESC_NOTIFY_ON
    THEN <<WriteChar(ModemIn, MODEM_SET_BIT(m))>>
    ELSE <<>>

descriptorWritten ==
    /\ ~crashed
    /\ handlers
    /\ pending # <<>>
    /\ Head(pending).op = "writeDescriptor"
    /\ LET o == Head(pending)
           calls == DescriptorWrittenCalls(o.tgt, o.val)
       IN  /\ Invoke(Tail(pending), calls, service, valid, ConfirmTag(o))
           /\ err' = RefusedError(calls, err)
           /\ last' = Step(RefusedSignals(calls), 0)
    /\ UNCHANGED <<state, open, m, cts, rts, readBuffer, writeBuffer, controller,
                   service, valid, handlers, crashed, accepted, nAccepted, rxCount,
                   rxHist>>

\* lines 335-350
CharacteristicWrittenCalls_NoResend(c, v) ==
    IF c = ModemIn
    THEN IF v = MODEM_SET_BIT(m) /\ ~open THEN <<ReadChar(ModemOut)>> ELSE <<>>
    ELSE IF c = BrspMode THEN <<WriteDesc(TxFifoNotify, DESC_NOTIFY_ON)>>
    ELSE <<>>
CharacteristicWrittenCalls(c, v) ==
    IF c = RxFifo THEN WriteInternalCalls(cts, writeBuffer)
    ELSE IF c = ModemIn
    THEN IF v = MODEM_SET_BIT(m) /\ ~open THEN <<ReadChar(ModemOut)>> ELSE <<>>
    ELSE IF c = BrspMode THEN <<WriteDesc(TxFifoNotify, DESC_NOTIFY_ON)>>
    ELSE <<>>

characteristicWritten ==
    /\ ~crashed
    /\ handlers
    /\ pending # <<>>
    /\ Head(pending).op = "writeCharacteristic"
    /\ LET o == Head(pending)
           calls == CharacteristicWrittenCalls(o.tgt, o.val)
       IN  /\ Invoke(Tail(pending), calls, service, valid, ConfirmTag(o))
           /\ rts' = IF o.tgt = ModemIn THEN o.val = MODEM_SET_BIT(m) ELSE rts
           /\ writeBuffer' = IF o.tgt = RxFifo THEN WriteInternalRest(cts, writeBuffer)
                             ELSE writeBuffer
           /\ err' = RefusedError(calls, err)
           /\ last' = Step(RefusedSignals(calls)
                           \o (IF o.tgt = RxFifo THEN WriteInternalSignals(cts, writeBuffer)
                               ELSE <<>>), 0)
    /\ UNCHANGED <<state, open, m, cts, readBuffer, controller, service, valid,
                   handlers, crashed, accepted, nAccepted, rxCount, rxHist>>

\* cts as the handlers compute it from a MODEM_OUT value
CtsOf(v) == v = MODEM_SET_BIT(m)

ModemValues == {<<0>>, <<1>>}

\* lines 317-333; v is the value the device returned
characteristicRead(v) ==
    /\ ~crashed
    /\ handlers
    /\ pending # <<>>
    /\ Head(pending).op = "readCharacteristic"
    /\ LET o == Head(pending)
       IN  /\ Invoke(Tail(pending), <<>>, service, valid, ConfirmTag(o))
           /\ IF o.tgt = ModemOut /\ ~open
              THEN /\ cts' = CtsOf(v)
                   /\ open' = TRUE
                   /\ state' = "Connected"
                   /\ last' = Step(<<"stateChanged(Connected)", "connected">>
                                   \o (IF readBuffer # <<>> THEN <<"readyRead">> ELSE <<>>),
                                   0)
              ELSE /\ last' = Step(<<>>, 0)
                   /\ UNCHANGED <<cts, open, state>>
    /\ UNCHANGED <<err, m, rts, readBuffer, writeBuffer, controller, service, valid,
                   handlers, crashed, accepted, nAccepted, rxCount, rxHist>>

\* a completion while the lambdas of lines 280-350 are not connected
unhandledCompletion ==
    /\ ~crashed
    /\ ~handlers
    /\ pending # <<>>
    /\ pending' = Tail(pending)
    /\ last' = Step(<<>>, 0)
    /\ UNCHANGED <<sockVars, controller, service, valid, handlers, crashed, histVars>>

\* lines 215-242: the oldest operation fails
ServiceErrorOf(o) ==
    IF o.op = "writeCharacteristic" THEN CharacteristicWriteError
    ELSE IF o.op = "writeDescriptor" THEN DescriptorWriteError
    ELSE CharacteristicReadError

serviceError ==
    /\ ~crashed
    /\ pending # <<>>
    /\ pending' = Tail(pending)
    /\ err' = ServiceErrorOf(Head(pending))
    /\ last' = Step(<<"error">>, 0)
    /\ UNCHANGED <<state, open, m, cts, rts, readBuffer, writeBuffer, controller,
                   service, valid, handlers, crashed, histVars>>

\* ------------------------------------------------- the service's notifications
ReadOverflow_NoTerminator(rb, nv) == Len(rb) + Len(nv) > maxBufferSize
ReadOverflow(rb, nv) == Len(rb) + Len(nv) + 1 > maxBufferSize

BufferFull(rb) == Len(rb) + PACKET_SIZE + 1 > maxBufferSize

\* line 295
OverflowCalls_None == <<>>
OverflowCalls == <<WriteChar(ModemIn, MODEM_CLEAR_BIT(m))>>

\* lines 292-305: what the notification of nv does to the read buffer and
\* which call it makes
TxFifoBuffer_Prepend(rb, nv) == IF ReadOverflow(rb, nv) THEN rb ELSE nv \o rb
TxFifoBuffer(rb, nv) == IF ReadOverflow(rb, nv) THEN rb ELSE rb \o nv

TxFifoCalls(rb, nv) ==
    IF ReadOverflow(rb, nv) THEN OverflowCalls
    ELSE IF BufferFull(rb \o nv) THEN <<WriteChar(ModemIn, MODEM_CLEAR_BIT(m))>>
    ELSE <<>>

\* lines 307-308: readyRead() only on an open socket
TxFifoSignals_Ungated(op) == <<"readyRead">>
TxFifoSignals(op) == IF op THEN <<"readyRead">> ELSE <<>>

\* lines 290-309: characteristicChanged(txFifoChar, n bytes)
txFifoChanged(n) ==
    /\ ~crashed
    /\ handlers
    /\ nAccepted + rxCount < MaxData
    /\ LET nv == Bytes(rxCount * PACKET_SIZE, n)
           calls == TxFifoCalls(readBuffer, nv)
       IN  /\ Len(pending) + Len(calls) <= MaxPending
           /\ Invoke(pending, calls, service, valid, {})
           /\ readBuffer' = TxFifoBuffer(readBuffer, nv)
           /\ received' = IF ReadOverflow(readBuffer, nv) THEN received
                          ELSE received \o nv
           /\ IF ReadOverflow(readBuffer, nv)
              THEN /\ err' = CharacteristicReadError
                   /\ last' = Step(RefusedSignals(calls) \o <<"error">>, 0)
              ELSE /\ err' = RefusedError(calls, err)
                   /\ last' = Step(RefusedSignals(calls) \o TxFifoSignals(open), 0)
    /\ rxCount' = rxCount + 1
    /\ UNCHANGED <<state, open, m, cts, rts, writeBuffer, controller, service, valid,
                   handlers, crashed, accepted, nAccepted, delivered>>

\* lines 310-314: characteristicChanged(modemOutChar, v)
modemOutChanged(v) ==
    /\ ~crashed
    /\ handlers
    /\ LET calls == WriteInternalCalls(CtsOf(v), writeBuffer)
       IN  /\ Len(pending) + Len(calls) <= MaxPending
           /\ cts' = CtsOf(v)
           /\ Invoke(pending, calls, service, valid, {})
           /\ writeBuffer' = WriteInternalRest(CtsOf(v), writeBuffer)
           /\ err' = RefusedError(calls, err)
           /\ last' = Step(RefusedSignals(calls)
                           \o WriteInternalSignals(CtsOf(v), writeBuffer), 0)
    /\ UNCHANGED <<state, open, m, rts, readBuffer, controller, service, valid,
                   handlers, crashed, accepted, nAccepted, rxCount, rxHist>>

\* ---------------------------------------------------------------- the facade
\* lines 384-399: what close() does to an open socket
Teardown ==
    /\ open' = FALSE
    /\ controller' = "null"
    /\ service' = "null"
    /\ handlers' = FALSE
    /\ pending' = <<>>
    /\ cts' = FALSE
    /\ rts' = FALSE
    /\ readBuffer' = <<>>
    /\ writeBuffer' = <<>>
    /\ state' = "Unconnected"
    /\ accepted' = <<>>
    /\ sent' = <<>>
    /\ nAccepted' = 0
    /\ rxCount' = 0
    /\ seen' = {}
    /\ rtsWire' = "none"
    /\ received' = <<>>
    /\ delivered' = <<>>
    /\ UNCHANGED <<err, m, valid>>

TeardownSignals_NoClosing ==
    <<"readChannelFinished", "disconnectFromDevice", "stateChanged(Unconnected)",
      "disconnected">>
TeardownSignals_Reordered ==
    <<"stateChanged(Closing)", "readChannelFinished", "stateChanged(Unconnected)",
      "disconnectFromDevice", "disconnected">>
TeardownSignals ==
    <<"stateChanged(Closing)", "readChannelFinished", "disconnectFromDevice",
      "stateChanged(Unconnected)", "disconnected">>

\* lines 381-382: close() returns at once on a socket that is not open
CloseReturns_Never(op) == FALSE
CloseReturns(op) == ~op

\* lines 379-400
close ==
    /\ ~crashed
    /\ IF CloseReturns(open)
       THEN /\ last' = Step(<<>>, 0)
            /\ UNCHANGED <<sockVars, transVars, histVars>>
       ELSE /\ Teardown
            /\ last' = Step(TeardownSignals, 0)
    /\ UNCHANGED crashed

\* lines 442 and 467: readData() and writeData() refuse a socket not open
NotConnected_Never(op) == FALSE
NotConnected(op) == ~op

\* line 474
WriteOverflow_NoTerminator(wb, len) == Len(wb) + len > maxBufferSize
WriteOverflow(wb, len) == Len(wb) + len + 1 > maxBufferSize

\* a call of the facade that ends in service->writeCharacteristic(calls):
\* through a null pointer the behaviour is undefined, the process dies or the
\* call does nothing
FacadeCall(calls, sigs, r) ==
    /\ Len(pending) + Len(calls) <= MaxPending
    /\ \/ /\ NullCall(calls)
          /\ crashed' = TRUE
          /\ last' = Step(<<"crash">>, 0)
          /\ UNCHANGED <<err, pending, seen, rtsWire, sent>>
       \/ /\ Invoke(pending, calls, service, valid, {})
          /\ err' = RefusedError(calls, err)
          /\ last' = Step(RefusedSignals(calls) \o sigs, r)
          /\ UNCHANGED crashed

\* lines 465-483: writeData(data, n), the data numbered after the bytes
\* accepted so far
writeData(n) ==
    /\ ~crashed
    /\ IF NotConnected(open) \/ WriteOverflow(writeBuffer, n)
       THEN /\ err' = OperationError
            /\ last' = Step(<<"error">>, -1)
            /\ UNCHANGED <<state, open, m, cts, rts, readBuffer, writeBuffer,
                           transVars, histVars, crashed>>
       ELSE LET data == Bytes(Len(accepted), n)
                wb == writeBuffer \o data
            IN  /\ nAccepted + rxCount < MaxData
                /\ accepted' = accepted \o data
                /\ nAccepted' = nAccepted + 1
                /\ writeBuffer' = WriteInternalRest(cts, wb)
                /\ FacadeCall(WriteInternalCalls(cts, wb), WriteInternalSignals(cts, wb), n)
                /\ UNCHANGED <<state, open, m, cts, rts, readBuffer, controller,
                               service, valid, handlers, rxCount, rxHist>>

\* lines 458-460 and 507-509
ReassertCalls(r, rb) ==
    IF ~r /\ Len(rb) + PACKET_SIZE + 1 <= maxBufferSize
    THEN <<WriteChar(ModemIn, MODEM_SET_BIT(m))>>
    ELSE <<>>

\* lines 440-463: readData(data, maxlen).  The callbacks processEvents()
\* dispatches are the steps that precede this one; what a slot may do on top
\* of them, close(), is readDataClosing
readData(maxlen) ==
    /\ ~crashed
    /\ IF NotConnected(open)
       THEN /\ err' = OperationError
            /\ last' = Step(<<"error">>, -1)
            /\ UNCHANGED <<state, open, m, cts, rts, readBuffer, writeBuffer,
                           transVars, histVars, crashed>>
       ELSE LET res == Take(readBuffer, maxlen)
                rb == Remove(readBuffer, Len(res))
            IN  /\ readBuffer' = rb
                /\ delivered' = delivered \o res
                /\ FacadeCall(ReassertCalls(rts, rb), <<>>, Len(res))
                /\ UNCHANGED <<state, open, m, cts, rts, writeBuffer, controller,
                               service, valid, handlers, accepted, nAccepted, rxCount,
                               received>>

\* readData() whose processEvents() runs a slot that calls close(): lines
\* 452-462 then run on the socket close() has reset
readDataClosing ==
    /\ ~crashed
    /\ open
    /\ Teardown
    /\ IF ReassertCalls(FALSE, <<>>) # <<>>
       THEN \/ crashed' = TRUE /\ last' = Step(TeardownSignals \o <<"crash">>, 0)
            \/ crashed' = FALSE /\ last' = Step(TeardownSignals, 0)
       ELSE crashed' = FALSE /\ last' = Step(TeardownSignals, 0)

\* lines 491-495
UnsetCalls(r) == IF r THEN <<WriteChar(ModemIn, MODEM_CLEAR_BIT(m))>> ELSE <<>>

unsetRTS ==
    /\ ~crashed
    /\ FacadeCall(UnsetCalls(rts), <<>>, 0)
    /\ UNCHANGED <<state, open, m, cts, rts, readBuffer, writeBuffer, controller,
                   service, valid, handlers, accepted, nAccepted, rxCount, rxHist>>

\* lines 505-510
setRTS ==
    /\ ~crashed
    /\ FacadeCall(ReassertCalls(rts, readBuffer), <<>>, 0)
    /\ UNCHANGED <<state, open, m, cts, rts, readBuffer, writeBuffer, controller,
                   service, valid, handlers, accepted, nAccepted, rxCount, rxHist>>

\* ------------------------------------------------------------ specification
Next ==
    \/ connectToDevice
    \/ controllerConnected
    \/ controllerError
    \/ \E found \in Manufacturer \cup {"none"} : discoveryFinished(found)
    \/ \E bad \in BadSets : serviceDiscovered(bad)
    \/ descriptorWritten
    \/ characteristicWritten
    \/ \E v \in ModemValues : characteristicRead(v)
    \/ unhandledCompletion
    \/ serviceError
    \/ \E n \in RxLens : txFifoChanged(n)
    \/ \E v \in ModemValues : modemOutChanged(v)
    \/ close
    \/ \E n \in WriteLens : writeData(n)
    \/ \E l \in ReadLens : readData(l)
    \/ readDataClosing
    \/ unsetRTS
    \/ setRTS

Spec == Init /\ [][Next]_vars

\* The runs in which the handshake is left to complete: discovery finds a VSP
\* service, every handle and descriptor resolves, no operation fails, the
\* application calls connectToDevice() once per connection and makes no call
\* through the service pointer before the service is resolved.
LiveConnect == state # "Connecting" /\ connectToDevice

LiveDiscovery == \E found \in Manufacturer : discoveryFinished(found)

LiveResolved == serviceDiscovered({})

LiveRead == \E v \in ModemValues : characteristicRead(v)

LiveSetRTS == service = "discovered" /\ setRTS

LiveUnsetRTS == service = "discovered" /\ unsetRTS

LiveNext ==
    \/ LiveConnect
    \/ controllerConnected
    \/ LiveDiscovery
    \/ LiveResolved
    \/ descriptorWritten
    \/ characteristicWritten
    \/ LiveRead
    \/ \E n \in RxLens : txFifoChanged(n)
    \/ \E v \in ModemValues : modemOutChanged(v)
    \/ close
    \/ \E n \in WriteLens : writeData(n)
    \/ \E l \in ReadLens : readData(l)
    \/ LiveSetRTS
    \/ LiveUnsetRTS

\* the Qt event loop delivers every signal of the controller and the service
\* that is due: each callback that stays enabled runs
LiveSpec ==
    /\ Init
    /\ [][LiveNext]_vars
    /\ WF_vars(controllerConnected)
    /\ WF_vars(LiveDiscovery)
    /\ WF_vars(LiveResolved)
    /\ WF_vars(descriptorWritten)
    /\ WF_vars(characteristicWritten)
    /\ WF_vars(LiveRead)

\* The runs in which the application leaves flow control to the socket: it
\* never calls setRTS() or unsetRTS().  Every operation is then issued by a
\* handler or after the handlers were connected, so no completion arrives
\* unhandled.
AutoNext ==
    \/ connectToDevice
    \/ controllerConnected
    \/ controllerError
    \/ \E found \in Manufacturer \cup {"none"} : discoveryFinished(found)
    \/ \E bad \in BadSets : serviceDiscovered(bad)
    \/ descriptorWritten
    \/ characteristicWritten
    \/ \E v \in ModemValues : characteristicRead(v)
    \/ serviceError
    \/ \E n \in RxLens : txFifoChanged(n)
    \/ \E v \in ModemValues : modemOutChanged(v)
    \/ close
    \/ \E n \in WriteLens : writeData(n)
    \/ \E l \in ReadLens : readData(l)
    \/ readDataClosing

AutoSpec == Init /\ [][AutoNext]_vars

\* The runs in which the peer never fills the read buffer: every TX_FIFO
\* notification leaves room for one more packet, so the socket itself never
\* writes "clear" (lines 295 and 305) and a "clear" on the wire is the
\* application's unsetRTS().
RoomyTxFifo ==
    \E n \in RxLens :
        /\ Len(readBuffer) + n + PACKET_SIZE + 1 <= maxBufferSize
        /\ txFifoChanged(n)

PauseNext ==
    \/ connectToDevice
    \/ controllerConnected
    \/ controllerError
    \/ \E found \in Manufacturer \cup {"none"} : discoveryFinished(found)
    \/ \E bad \in BadSets : serviceDiscovered(bad)
    \/ descriptorWritten
    \/ characteristicWritten
    \/ \E v \in ModemValues : characteristicRead(v)
    \/ unhandledCompletion
    \/ serviceError
    \/ RoomyTxFifo
    \/ \E v \in ModemValues : modemOutChanged(v)
    \/ close
    \/ \E n \in WriteLens : writeData(n)
    \/ \E l \in ReadLens : readData(l)
    \/ readDataClosing
    \/ unsetRTS
    \/ setRTS

PauseSpec == Init /\ [][PauseNext]_vars

\* ------------------------------------------------------------------ claims
\* the RX_FIFO data writes among the operations in flight
RxFifoWrites(pend) ==
    {i \in 1..Len(pend) : pend[i].op = "writeCharacteristic" /\ pend[i].tgt = RxFifo}

\* the step queued exactly the operation o
Issued(o) ==
    \/ pending' = pending \o <<o>>
    \/ pending # <<>> /\ pending' = Tail(pending) \o <<o>>

\* the byte that deasserts RTS / CTS on the wire
ClearEncoding(mf) == IF mf = Laird THEN <<0>> ELSE <<1>>

\* C1: during one connection the payloads written to RX_FIFO, followed by the
\* write buffer, are the bytes of the accepted writeData() calls in call
\* order, and every RX_FIFO write carries 1 .. PACKET_SIZE bytes
C1_OutboundIntegrity ==
    /\ sent \o writeBuffer = accepted
    /\ \A i \in RxFifoWrites(pending) :
          Len(pending[i].val) >= 1 /\ Len(pending[i].val) <= PACKET_SIZE

\* two calls accepted, more than one packet written, nothing left to send
C1_Witness ==
    /\ nAccepted = 2
    /\ Len(sent) > 20
    /\ writeBuffer = <<>>
    /\ sent = accepted

\* C2: at most one RX_FIFO data write is in flight at any time
C2_OneWriteInFlight == Cardinality(RxFifoWrites(pending)) <= 1

\* C3: a step that ends with cts false (writeData(), an RX_FIFO confirmation
\* or a MODEM_OUT notification ran writeInternal() with cts false) hands no
\* payload to RX_FIFO and takes no byte from the write buffer
C3_NoSendWithoutCts ==
    [][(~cts' /\ open')
        => /\ sent' = sent
           /\ Cardinality(RxFifoWrites(pending')) <= Cardinality(RxFifoWrites(pending))
           /\ Len(writeBuffer') >= Len(writeBuffer)
           /\ SubSeq(writeBuffer', 1, Len(writeBuffer)) = writeBuffer]_vars

\* bytes accepted wait in the write buffer of an open socket whose cts is false
C3_Witness == open /\ ~cts /\ writeBuffer # <<>> /\ sent = <<>>

\* C4: both buffers stay shorter than maxBufferSize
C4_BufferBound ==
    /\ Len(readBuffer) < maxBufferSize
    /\ Len(writeBuffer) < maxBufferSize

\* the read buffer holds maxBufferSize - 1 bytes
C4_Witness == Len(readBuffer) = maxBufferSize - 1

\* C5: a TX_FIFO notification that does not fit is dropped: the read buffer
\* is unchanged, "clear" is written to MODEM_IN, the read error is signalled,
\* and state, cts, the write buffer and the open status stay as they were
C5_OverflowDrop ==
    [][\A n \in RxLens :
         (txFifoChanged(n) /\ Len(readBuffer) + n + 1 > maxBufferSize)
         => /\ readBuffer' = readBuffer
            /\ Issued(WriteChar(ModemIn, ClearEncoding(m)))
            /\ last'.sig = <<"error">>
            /\ err' = CharacteristicReadError
            /\ state' = state /\ cts' = cts /\ open' = open
            /\ writeBuffer' = writeBuffer]_vars

\* an open socket after it dropped the second of two packets
C5_Witness ==
    /\ open
    /\ rxCount = 2
    /\ Len(readBuffer) = 20
    /\ err = CharacteristicReadError
    /\ last.sig = <<"error">>
    /\ rtsWire = "clear"

\* C6: a TX_FIFO notification writes "clear" to MODEM_IN exactly when it
\* leaves len(readBuffer) + 20 + 1 > maxBufferSize, and a read that drains
\* the buffer writes "set" exactly when RTS was deasserted before and the
\* read leaves len(readBuffer) + 20 + 1 <= maxBufferSize
C6_RtsTracksHeadroom ==
    [][/\ \A n \in RxLens :
            txFifoChanged(n)
            => (Issued(WriteChar(ModemIn, ClearEncoding(m)))
                <=> Len(readBuffer') + 20 + 1 > maxBufferSize)
       /\ \A l \in ReadLens :
            (readData(l) /\ open /\ readBuffer # <<>>)
            => /\ Issued(WriteChar(ModemIn, SetEncoding(m)))
                    => Len(readBuffer') + 20 + 1 <= maxBufferSize
               /\ (rtsWire = "clear" /\ Len(readBuffer') + 20 + 1 <= maxBufferSize)
                    => Issued(WriteChar(ModemIn, SetEncoding(m)))]_vars

\* C7: the handshake operations are issued in order, each after the
\* confirmation of the one before, and Connected is entered after all of them
C7_HandshakeOrder ==
    /\ "moDescIssued" \in seen => "txDescConfirmed" \in seen
    /\ "setIssued" \in seen => "moDescConfirmed" \in seen
    /\ "readIssued" \in seen => "setConfirmed" \in seen
    /\ state = "Connected"
         => {"txDescConfirmed", "moDescConfirmed", "setConfirmed", "readCompleted"}
               \subseteq seen

\* C8: BlueRadios enables the TX_FIFO notification only after the mode
\* switch is confirmed; Laird never writes the mode switch and enables the
\* notification as soon as the handles are resolved
C8_ModeSwitchFirst ==
    /\ (m = BlueRadios /\ "txDescIssued" \in seen) => "modeConfirmed" \in seen
    /\ (m = BlueRadios /\ handlers) => "modeIssued" \in seen
    /\ m = Laird => "modeIssued" \notin seen
    /\ (m = Laird /\ handlers) => "txDescIssued" \in seen

\* a BlueRadios handshake past its mode switch
C8_Witness ==
    /\ m = BlueRadios
    /\ state = "Connecting"
    /\ "txDescIssued" \in seen
    /\ "modeConfirmed" \in seen

\* C9: a handshake that is left to complete ends in Connected; the step that
\* enters Connected signals connected() and sets cts to whether the value read
\* from MODEM_OUT is the variant's "set" byte (1 for Laird, 0 for BlueRadios)
C9_HandshakeCompletes ==
    /\ (state = "Connecting") ~> (state = "Connected")
    /\ [][\A v \in ModemValues :
             (characteristicRead(v) /\ ~open /\ open')
             => /\ state' = "Connected"
                /\ \E i \in 1..Len(last'.sig) : last'.sig[i] = "connected"
                /\ cts' = (v = SetEncoding(m))]_vars

\* a BlueRadios socket that has just entered Connected with cts true
C9_Witness ==
    /\ m = BlueRadios
    /\ state = "Connected"
    /\ cts
    /\ \E i \in 1..Len(last.sig) : last.sig[i] = "connected"

\* C10: close() while Connecting requests the disconnect and leaves the
\* socket Unconnected with empty buffers and cts = rts = false
C10_CloseCancelsHandshake ==
    [][(close /\ state = "Connecting")
        => /\ state' = "Unconnected"
           /\ \E i \in 1..Len(last'.sig) : last'.sig[i] = "disconnectFromDevice"
           /\ readBuffer' = <<>> /\ writeBuffer' = <<>>
           /\ ~cts' /\ ~rts']_vars

C12_AtomicWriteRejection ==
    [][\A n \in WriteLens :
         (writeData(n) /\ open)
         => IF Len(writeBuffer) + n + 1 > maxBufferSize
            THEN /\ last'.ret = -1
                 /\ last'.sig = <<"error">>
                 /\ err' = OperationError
                 /\ writeBuffer' = writeBuffer
                 /\ accepted' = accepted
                 /\ pending' = pending /\ sent' = sent
                 /\ state' = "Connected" /\ open'
            ELSE /\ last'.ret = n
                 /\ Len(accepted') = Len(accepted) + n
                 /\ sent' \o writeBuffer' = (sent \o writeBuffer) \o Bytes(Len(accepted), n)
                 /\ state' = "Connected" /\ open']_vars

\* a write was refused on an open socket whose write buffer holds bytes
C12_Witness ==
    /\ open
    /\ last.ret = -1
    /\ last.sig = <<"error">>
    /\ writeBuffer # <<>>
    /\ Len(writeBuffer) + (PACKET_SIZE + 1) + 1 > maxBufferSize

\* C13: on an open socket whose cts stays true and whose writes are
\* confirmed, every accepted byte is eventually written to RX_FIFO and the
\* write buffer becomes empty; and a step that turns cts from false to true
\* with a non-empty write buffer writes its first packet to RX_FIFO
C13_OutboundProgress ==
    /\ (open /\ sent # accepted)
          ~> (~open \/ ~cts \/ (sent = accepted /\ writeBuffer = <<>>))
    /\ [][(open /\ ~cts /\ cts' /\ writeBuffer # <<>>)
            => /\ sent' = sent \o Take(writeBuffer, PACKET_SIZE)
               /\ Issued(WriteChar(RxFifo, Take(writeBuffer, PACKET_SIZE)))]_vars

\* the second packet of a write of PACKET_SIZE + 1 bytes went out on the
\* confirmation of the first
C13_Witness ==
    /\ open /\ cts
    /\ Len(accepted) = PACKET_SIZE + 1
    /\ sent = accepted
    /\ pending = <<WriteChar(RxFifo, <<PACKET_SIZE>>)>>
    /\ last.sig = <<"bytesWritten">>

\* C14: readData(maxlen) on an open socket returns the first
\* min(maxlen, len(readBuffer)) bytes of the read buffer and removes them,
\* and the bytes the reads of a connection returned are a prefix of the
\* TX_FIFO payloads appended to the read buffer, in arrival order
C14_InboundFifo ==
    /\ [][\A l \in ReadLens :
             (readData(l) /\ open)
             => /\ last'.ret = Min(l, Len(readBuffer))
                /\ delivered' = delivered \o SubSeq(readBuffer, 1, last'.ret)
                /\ readBuffer' = SubSeq(readBuffer, last'.ret + 1, Len(readBuffer))]_vars
    /\ [](/\ Len(delivered) <= Len(received)
          /\ SubSeq(received, 1, Len(delivered)) = delivered)

\* two packets were appended and read to the last byte, in two reads
C14_Witness ==
    /\ open
    /\ rxCount = 2
    /\ Len(received) > PACKET_SIZE
    /\ delivered = received
    /\ readBuffer = <<>>

\* C15: a handshake error (no VSP service found, a required characteristic
\* invalid, a notification descriptor missing, an error of the controller or
\* of the service while Connecting) signals error(), issues no further
\* handshake operation and leaves the state Connecting; Connecting is never
\* left for Unconnected
C15_HandshakeErrorsKeepState ==
    [][/\ state = "Connecting" => state' \in {"Connecting", "Connected"}
       /\ (/\ state = "Connecting"
           /\ \/ discoveryFinished("none")
              \/ \E bad \in BadSets :
                    /\ serviceDiscovered(bad)
                    /\ \/ bad \cap RequiredChars # {}
                       \/ bad \cap Descriptors # {}
                       \/ m = BlueRadios /\ BrspMode \in bad
              \/ controllerError
              \/ serviceError)
          => /\ \E i \in 1..Len(last'.sig) : last'.sig[i] = "error"
             /\ err' # NoError
             /\ state' = "Connecting"
             /\ seen' = seen
             /\ sent' = sent
             /\ rtsWire' = rtsWire
             /\ Len(pending') <= Len(pending)
             /\ handlers' = handlers]_vars

\* a handshake stopped by a failed lookup on the discovered service
C15_Witness ==
    /\ state = "Connecting"
    /\ service = "discovered"
    /\ ~handlers
    /\ err = OperationError
    /\ last.sig = <<"error">>

\* C16: readyRead() is signalled only on a Connected socket: a TX_FIFO
\* payload that arrives while Connecting is appended without it, the step
\* that enters Connected signals it exactly when the read buffer is not
\* empty, and on a Connected socket every payload appended signals it
C16_ReadyReadGating ==
    [][/\ (\E i \in 1..Len(last'.sig) : last'.sig[i] = "readyRead")
            => state' = "Connected"
       /\ \A n \in RxLens :
            (txFifoChanged(n) /\ state # "Connected"
                /\ Len(readBuffer) + n + 1 <= maxBufferSize)
            => /\ Len(readBuffer') = Len(readBuffer) + n
               /\ \A i \in 1..Len(last'.sig) : last'.sig[i] # "readyRead"
       /\ (state = "Connecting" /\ state' = "Connected")
            => ((\E i \in 1..Len(last'.sig) : last'.sig[i] = "readyRead")
                   <=> readBuffer' # <<>>)
       /\ \A n \in RxLens :
            (txFifoChanged(n) /\ state = "Connected"
                /\ Len(readBuffer) + n + 1 <= maxBufferSize)
            => \E i \in 1..Len(last'.sig) : last'.sig[i] = "readyRead"]_vars

\* Connected was entered with bytes of the handshake in the read buffer
C16_Witness ==
    /\ state = "Connected"
    /\ readBuffer # <<>>
    /\ last.sig = <<"stateChanged(Connected)", "connected", "readyRead">>

\* C17: on a resolved service unsetRTS() writes "clear" to MODEM_IN whatever
\* the rts flag is; setRTS() writes "set" only if len(readBuffer) +
\* PACKET_SIZE + 1 <= maxBufferSize and otherwise does nothing
C17_ManualFlowControl ==
    [][/\ (unsetRTS /\ service = "discovered" /\ ModemIn \in valid)
            => Issued(WriteChar(ModemIn, ClearEncoding(m)))
       /\ (setRTS /\ service = "discovered" /\ ModemIn \in valid)
            => IF Len(readBuffer) + PACKET_SIZE + 1 <= maxBufferSize
               THEN pending' = pending \/ Issued(WriteChar(ModemIn, SetEncoding(m)))
               ELSE /\ pending' = pending
                    /\ last'.sig = <<>>
                    /\ err' = err
                    /\ state' = state /\ rts' = rts /\ cts' = cts]_vars

\* C18: readData() and writeData() on a socket that is not Connected return
\* -1 and signal the error; the buffers, cts, rts and the state are
\* unchanged and no transport operation is issued
C18_NotConnectedRefused ==
    [][(state # "Connected"
          /\ \/ \E l \in ReadLens : readData(l)
             \/ \E n \in WriteLens : writeData(n))
        => /\ last'.ret = -1
           /\ last'.sig = <<"error">>
           /\ err' = OperationError
           /\ readBuffer' = readBuffer /\ writeBuffer' = writeBuffer
           /\ cts' = cts /\ rts' = rts
           /\ state' = state /\ open' = open
           /\ pending' = pending /\ sent' = sent /\ rtsWire' = rtsWire
           /\ delivered' = delivered /\ accepted' = accepted]_vars

\* a call was refused while Connecting, with bytes of the handshake in the
\* read buffer
C18_Witness ==
    /\ state = "Connecting"
    /\ readBuffer # <<>>
    /\ last.ret = -1
    /\ last.sig = <<"error">>

\* the state a stateChanged() signal announces
StateNamed(sg) ==
    IF sg = "stateChanged(Connecting)" THEN "Connecting"
    ELSE IF sg = "stateChanged(Connected)" THEN "Connected"
    ELSE IF sg = "stateChanged(Closing)" THEN "Closing"
    ELSE IF sg = "stateChanged(Unconnected)" THEN "Unconnected"
    ELSE "none"

\* the values _state takes in a step that starts in `from` and emits `sigs`
StateTrail(from, sigs) ==
    LET changes == SelectSeq(sigs, LAMBDA sg : StateNamed(sg) # "none")
    IN  <<from>> \o [i \in 1..Len(changes) |-> StateNamed(changes[i])]

\* the edges of the cycle
StateEdges ==
    {<<"Unconnected", "Connecting">>, <<"Connecting", "Connected">>,
     <<"Connected", "Closing">>, <<"Closing", "Unconnected">>}

\* C19: every change of _state in a step is an edge of the cycle Unconnected,
\* Connecting, Connected, Closing, Unconnected, a step that signals no
\* stateChanged() leaves _state alone, and the socket is open exactly while
\* the state is Connected or Closing
C19_StateCycle ==
    /\ [][LET t == StateTrail(state, last'.sig)
          IN  /\ t[Len(t)] = state'
              /\ \A i \in 1..(Len(t) - 1) :
                    t[i] = t[i + 1] \/ <<t[i], t[i + 1]>> \in StateEdges]_vars
    /\ [](state \in {"Unconnected", "Connecting", "Connected", "Closing"})
    /\ [](open <=> state \in {"Connected", "Closing"})

\* the cycle was closed: a step from Connected through Closing to Unconnected
C19_Witness ==
    /\ state = "Unconnected"
    /\ ~open
    /\ StateTrail("Connected", last.sig) = <<"Connected", "Closing", "Unconnected">>

\* C20: a readData() whose event pump ran callbacks or close() completes on
\* the state they left: it makes no call through the service pointer close()
\* has reset, it keeps the read buffer within its bound, and it returns the
\* bytes at the head of the read buffer, those appended during the pump
\* included
C20_ReentrantReadTolerated ==
    [][/\ readDataClosing
            => /\ ~crashed'
               /\ \A i \in 1..Len(last'.sig) : last'.sig[i] # "crash"
       /\ \A l \in ReadLens :
            (readData(l) /\ open)
            => /\ ~crashed'
               /\ Len(readBuffer') < maxBufferSize
               /\ readBuffer = SubSeq(readBuffer, 1, last'.ret) \o readBuffer']_vars

\* C21: close() on a socket that is not open does nothing: it requests no
\* disconnect, signals nothing, and leaves the state, cts, rts, both buffers,
\* the last error, the controller, the service and the operations in flight
\* as they were
C21_CloseNotOpen ==
    [][(close /\ ~open)
        => /\ last'.sig = <<>>
           /\ state' = state /\ open' = open
           /\ cts' = cts /\ rts' = rts
           /\ readBuffer' = readBuffer /\ writeBuffer' = writeBuffer
           /\ err' = err
           /\ controller' = controller /\ service' = service
           /\ handlers' = handlers /\ pending' = pending]_vars

\* a Connecting socket after a step without signals: the handshake is in
\* flight, the read buffer holds its bytes and the last error is the dropped
\* packet's
C21_Witness ==
    /\ state = "Connecting"
    /\ ~open
    /\ controller # "null"
    /\ pending # <<>>
    /\ readBuffer # <<>>
    /\ err = CharacteristicReadError
    /\ last = Step(<<>>, 0)

\* the MODEM_IN writes among the operations in flight
ModemInWrites(pend) ==
    {i \in 1..Len(pend) : pend[i].op = "writeCharacteristic" /\ pend[i].tgt = ModemIn}

\* C22: in the runs without setRTS() and unsetRTS(), on a Connected socket
\* with no MODEM_IN write in flight and len(readBuffer) + PACKET_SIZE + 1 <=
\* maxBufferSize, the last value written to MODEM_IN is "set" (stated for
\* the sockets on which no operation failed and no error was signalled)
C22_NoStall ==
    (/\ state = "Connected"
     /\ err = NoError
     /\ ModemInWrites(pending) = {}
     /\ Len(readBuffer) + PACKET_SIZE + 1 <= maxBufferSize)
    => rtsWire = "set"

\* C23: setRTS() and unsetRTS() on an Unconnected socket, or on a Connecting
\* one whose service and MODEM_IN handle are not resolved yet, make no call
\* to the transport and change nothing of the socket
C23_NoCallWithoutService ==
    [][(/\ setRTS \/ unsetRTS
        /\ \/ state = "Unconnected"
           \/ state = "Connecting" /\ (service # "discovered" \/ ModemIn \notin valid))
        => /\ ~crashed'
           /\ last'.sig = <<>>
           /\ pending' = pending /\ rtsWire' = rtsWire
           /\ state' = state /\ open' = open /\ err' = err
           /\ cts' = cts /\ rts' = rts
           /\ readBuffer' = readBuffer /\ writeBuffer' = writeBuffer]_vars

\* C24: once unsetRTS() has written "clear" and the write is confirmed (rts
\* is false, no MODEM_IN write is in flight), no step of a Connected socket
\* writes "set" to MODEM_IN but a call of setRTS(); a read that leaves
\* len(readBuffer) + PACKET_SIZE + 1 <= maxBufferSize does not.  Stated for
\* the runs in which the socket itself never writes "clear"
C24_PausePersists ==
    [][(/\ state = "Connected"
        /\ rtsWire = "clear"
        /\ ~rts
        /\ ModemInWrites(pending) = {})
        => (rtsWire' = "set" => setRTS)]_vars

=============================================================================
